---- MODULE Spec2Model ----
(***************************************************************************)
(* Model of the packed PDF generator (src/public/pdf-generator.js):        *)
(* LatexPDFGenerator.generatePDF and the stages it runs, with the page     *)
(* slicer _computePageSlices translated statement by statement.            *)
(* Around it, the click handler of the download button                     *)
(* (src/unnamed/part_000) and a second run on the same render host.        *)
(* The server (src/unnamed/part_002): chunkText, dedupeByNumberedTitle and *)
(* the handler of POST /api/extract, with specifications of their own.     *)
(*                                                                         *)
(* Lengths are integers.  DOM lengths (card heights, blockSpacingPx,       *)
(* contentWidthPx) are CSS pixels, canvas lengths are raster pixels, page  *)
(* lengths are points.  rasterScale is a rational <<num, den>>, so that    *)
(* Math.round and Math.floor do real work.                                 *)
(***************************************************************************)
EXTENDS Integers, Sequences, FiniteSets, TLC

(***************************************************************************)
(* Bounds of the model.                                                    *)
(***************************************************************************)
MaxItems == 3
MaxDomHeight == 2
MaxSpacing == 1
MaxMargin == 5
ContentWidth == 4
MaxRuns == 3

(***************************************************************************)
(* Arithmetic of the JavaScript numbers the generator uses.                *)
(***************************************************************************)
\* Math.floor(a / b) for integers a and b, b # 0.
FloorDiv(a, b) == IF b > 0 THEN a \div b ELSE (0 - a) \div (0 - b)

\* Math.round(x * scale): the nearest integer, halves rounded up.
RoundScaled(x, scale) == FloorDiv(2 * x * scale[1] + scale[2], 2 * scale[2])

\* Math.floor(x * scale): the size html2canvas gives its canvas.
FloorScaled(x, scale) == FloorDiv(x * scale[1], scale[2])

\* Math.min(a, b)
Min(a, b) == IF a <= b THEN a ELSE b

RECURSIVE SumSeq(_)
SumSeq(s) == IF s = <<>> THEN 0 ELSE Head(s) + SumSeq(Tail(s))

SeqsUpTo(S, n) == UNION {[1..k -> S] : k \in 0..n}

(***************************************************************************)
(* Inputs.  An item is modelled by the height its card lays out to once    *)
(* its math is typeset; NotArray stands for a non-array argument.          *)
(***************************************************************************)
NotArray == [isArray |-> FALSE, list |-> <<>>]
ArrayOf(list) == [isArray |-> TRUE, list |-> list]
NoItems == ArrayOf(<<>>)
NoWrapper == [id |-> 0, height |-> 0]
NoCanvas == [width |-> 0, height |-> 0]
NoGeometry ==
    [usableWidthPt |-> 0, usableHeightPt |-> 0, margin |-> 0,
     pxToPt |-> <<0, 1>>, pageSliceHeightPx |-> 0]
EmptyInputMessage == "No items to export."

\* The second run before it is started.
NoPeer ==
    [pc |-> "idle", items |-> NoItems, wrapper |-> NoWrapper,
     bigCanvas |-> NoCanvas, cardRectsPx |-> <<>>, slices |-> <<>>,
     pdfPages |-> <<>>, saved |-> 0, error |-> ""]

\* pdfFormat/pdfOrientation as the page size in points they select.
PageSizes == {<<5, 8>>, <<8, 5>>}
RasterScales == {<<1, 1>>, <<3, 2>>}

SmallOptions ==
    {[pageWidthPt |-> p[1], pageHeightPt |-> p[2], pageMarginPt |-> m,
      contentWidthPx |-> ContentWidth, rasterScale |-> s, blockSpacingPx |-> g] :
        p \in PageSizes, m \in 0..MaxMargin, s \in RasterScales, g \in 0..MaxSpacing}

\* The geometry of the specification's scenarios A and B (capacity 1100, 1200).
ScenarioOptions ==
    {[pageWidthPt |-> 1000, pageHeightPt |-> h, pageMarginPt |-> 0,
      contentWidthPx |-> 1000, rasterScale |-> <<1, 1>>, blockSpacingPx |-> 24] :
        h \in {1100, 1200}}

ScenarioItems == {<<500, 500, 500>>, <<2000>>}

WideOptions == SmallOptions \cup ScenarioOptions
WideItems ==
    {ArrayOf(l) : l \in SeqsUpTo(1..MaxDomHeight, MaxItems) \cup ScenarioItems}
        \cup {NotArray}

\* The options a constructed generator can slice with: a zero usable width
\* makes pxToPt zero and the capacity Infinity or NaN, which is left out.
Sliceable(o) == o.pageWidthPt - 2 * o.pageMarginPt # 0

VARIABLES
    options,          \* this.options, set by the constructor
    hostChildren,     \* children of this.renderHost, in document order
    pc,               \* the statement generatePDF is at
    items,            \* the argument of the run
    wrapper,          \* the wrapper of the run
    cards,            \* the card nodes of the run, as their laid-out heights
    typesetVia,       \* the MathJax interface _typeset used
    bigCanvas,        \* the canvas html2canvas resolved with
    geometry,         \* usableWidthPt, usableHeightPt, margin, pxToPt, pageSliceHeightPx
    cardRectsPx,      \* the card rectangles in canvas pixels
    slices,           \* the slice list being built
    pageStartPx, usedPx, currentIndex, lastCardBottomPx,
    sliceCards,       \* history: the card indexes consumed for each slice
    placed,           \* history: the card indexes consumed in this outer iteration
    forced,           \* history: the indexes of the slices the fallback pushed
    sliceIndex,       \* position of the for loop of _buildPdfFromSlices
    first,            \* the flag of _buildPdfFromSlices
    pdfPages,         \* the document: one sequence of placed images per page
    saved,            \* the number of pdf.save calls
    error,            \* the rejection reason of generatePDF, "" when none
    consoleLog,       \* what the generator wrote to the console
    stages,           \* history: the stages the run has started
    runCount,         \* history: the number of runs started on this host
    runsLog,          \* history: items and slice list of each run that sliced
    loadingShown,     \* the page: loading.style.display is 'block'
    errorShown,       \* the page: the text errorDiv shows, "" while it is hidden
    peer,             \* a second run on the same render host
    srvPc,            \* the server: the statement the /api/extract handler is at
    hasFile,          \* req.file is set
    uploadExists,     \* the file multer wrote is on disk
    apiKeySet,        \* process.env.OPENAI_API_KEY is set
    text,             \* parsed.text, the argument of chunkText
    chunkSize,        \* the second argument of chunkText
    chunkI,           \* the loop variable i of chunkText
    chunks,           \* the chunks pushed so far
    llmIndex,         \* the loop variable i of extractMathContent
    all,              \* the items the chunks gave, the argument of the de-duplication
    dedupeIndex,      \* position of the for loop of dedupeByNumberedTitle
    best,             \* the Map of dedupeByNumberedTitle, in insertion order
    content,          \* what dedupeByNumberedTitle returned
    responses,        \* the responses sent for the request
    trace             \* history: what the handler did, in order

vars ==
    <<options, hostChildren, pc, items, wrapper, cards, typesetVia, bigCanvas,
      geometry, cardRectsPx, slices, pageStartPx, usedPx, currentIndex,
      lastCardBottomPx, sliceCards, placed, forced, sliceIndex, first, pdfPages, saved,
      error, consoleLog, stages, runCount, runsLog, loadingShown, errorShown,
      peer, srvPc, hasFile, uploadExists, apiKeySet, text, chunkSize, chunkI,
      chunks, llmIndex, all, dedupeIndex, best, content, responses, trace>>

\* The state of the server (src/unnamed/part_002, part_003).
serverVars ==
    <<srvPc, hasFile, uploadExists, apiKeySet, text, chunkSize, chunkI, chunks,
      llmIndex, all, dedupeIndex, best, content, responses, trace>>

\* What is around the run: the page of the download button and the other run.
pageVars == <<loadingShown, errorShown, peer>>

slicerVars ==
    <<geometry, cardRectsPx, slices, pageStartPx, usedPx, currentIndex,
      lastCardBottomPx, sliceCards, placed, forced>>

assemblerVars == <<sliceIndex, first, pdfPages, saved>>

runVars ==
    <<options, hostChildren, pc, items, wrapper, cards, typesetVia, bigCanvas,
      error, consoleLog, stages, runCount, runsLog>>

\* What a run starts from: everything but the options and the render host.
RunReset ==
    /\ pc = "idle"
    /\ items = NoItems
    /\ wrapper = NoWrapper
    /\ cards = <<>>
    /\ typesetVia = "none"
    /\ bigCanvas = NoCanvas
    /\ geometry = NoGeometry
    /\ cardRectsPx = <<>>
    /\ slices = <<>>
    /\ pageStartPx = 0
    /\ usedPx = 0
    /\ currentIndex = 0
    /\ lastCardBottomPx = 0
    /\ sliceCards = <<>>
    /\ placed = <<>>
    /\ forced = {}
    /\ sliceIndex = 0
    /\ first = TRUE
    /\ pdfPages = <<>>
    /\ saved = 0
    /\ error = ""
    /\ stages = {}

\* The server takes no part in a run of the generator.
ServerIdle ==
    /\ srvPc = "none"
    /\ hasFile = FALSE
    /\ uploadExists = FALSE
    /\ apiKeySet = FALSE
    /\ text = <<>>
    /\ chunkSize = 1
    /\ chunkI = 0
    /\ chunks = <<>>
    /\ llmIndex = 0
    /\ all = <<>>
    /\ dedupeIndex = 1
    /\ best = <<>>
    /\ content = <<>>
    /\ responses = <<>>
    /\ trace = <<>>

\* The server before a request: the handler at pc0, the request with or
\* without a file, the text and the chunk size chunkText is given, and the
\* item list the de-duplication is given.
ServerInit(pc0, file, key, t, size, list) ==
    /\ srvPc = pc0
    /\ hasFile = file
    /\ uploadExists = file
    /\ apiKeySet = key
    /\ text = t
    /\ chunkSize = size
    /\ chunkI = 0
    /\ chunks = <<>>
    /\ llmIndex = 0
    /\ all = list
    /\ dedupeIndex = 1
    /\ best = <<>>
    /\ content = <<>>
    /\ responses = <<>>
    /\ trace = <<>>

\* The page and its generator before a run, with options of optionSet.
ClientInit(optionSet) ==
    /\ options \in {o \in optionSet : Sliceable(o)}
    /\ hostChildren = <<>>
    /\ consoleLog = <<>>
    /\ runCount = 0
    /\ runsLog = {}
    /\ loadingShown = TRUE
    /\ errorShown = ""
    /\ peer = NoPeer
    /\ RunReset

InitWith(optionSet) == ClientInit(optionSet) /\ ServerIdle

Init == InitWith(WideOptions)

(***************************************************************************)
(* The DOM the generator builds and measures.                              *)
(***************************************************************************)
\* Height of the wrapper _buildContinuousDocument fills: the cards stacked,
\* every card but the first with marginTop blockSpacingPx.
WrapperHeight(list, spacing) ==
    IF list = <<>> THEN 0 ELSE SumSeq(list) + (Len(list) - 1) * spacing

\* Offset of card i below the top of its wrapper.
CardOffset(list, i, spacing) ==
    SumSeq(SubSeq(list, 1, i - 1)) + (i - 1) * spacing

\* getBoundingClientRect().top of child k of the render host, which sits at
\* top:0 and stacks its children.
RECURSIVE ChildTop(_, _)
ChildTop(children, k) ==
    IF k <= 1 THEN 0 ELSE ChildTop(children, k - 1) + children[k - 1].height

IndexOfChild(children, id) ==
    CHOOSE k \in 1..Len(children) : children[k].id = id

IsChild(children, id) == \E k \in 1..Len(children) : children[k].id = id

RemoveFirstChild(children, id) == Tail(children)

\* this.renderHost.removeChild(w)
RemoveChild(children, id) ==
    LET k == IndexOfChild(children, id)
    IN  SubSeq(children, 1, k - 1) \o SubSeq(children, k + 1, Len(children))

\* wrapper.getBoundingClientRect().top
WrapperTop == ChildTop(hostChildren, IndexOfChild(hostChildren, wrapper.id))

\* el.getBoundingClientRect() of card i
CardClientRect(i) ==
    [top |-> WrapperTop + CardOffset(cards, i, options.blockSpacingPx),
     height |-> cards[i]]

(***************************************************************************)
(* generatePDF, lines 58-64.                                               *)
(***************************************************************************)
IsEmptyInputArrayOnly(its) == its.isArray /\ Len(its.list) = 0

\* !Array.isArray(items) || items.length === 0
IsEmptyInput(its) == ~its.isArray \/ Len(its.list) = 0

generatePDF_reject(its) ==
    /\ pc = "idle"
    /\ IsEmptyInput(its)
    /\ items' = its
    /\ runCount' = runCount + 1
    /\ pc' = "failed"
    /\ error' = EmptyInputMessage
    /\ UNCHANGED <<options, hostChildren, wrapper, cards, typesetVia, bigCanvas,
                   consoleLog, stages, runsLog>>
    /\ UNCHANGED slicerVars
    /\ UNCHANGED assemblerVars
    /\ UNCHANGED pageVars
    /\ UNCHANGED serverVars

\* _buildContinuousDocument: the wrapper is filled and appended to the host.
generatePDF_build(its) ==
    /\ pc = "idle"
    /\ ~IsEmptyInput(its)
    /\ items' = its
    /\ runCount' = runCount + 1
    /\ wrapper' = [id |-> runCount + 1,
                   height |-> WrapperHeight(its.list, options.blockSpacingPx)]
    /\ cards' = its.list
    /\ hostChildren' = Append(hostChildren, wrapper')
    /\ stages' = stages \cup {"build"}
    /\ pc' = "typeset"
    /\ UNCHANGED <<options, typesetVia, bigCanvas, error, consoleLog, runsLog>>
    /\ UNCHANGED slicerVars
    /\ UNCHANGED assemblerVars
    /\ UNCHANGED pageVars
    /\ UNCHANGED serverVars

\* The run ends rejected with reason e; nothing else is touched (no finally).
Throw(e) ==
    /\ pc' = "failed"
    /\ error' = e

(***************************************************************************)
(* _typeset, lines 344-354, and the settle delay of line 68.               *)
(***************************************************************************)
MathJaxInterfaces == {"absent", "typesetPromise", "Hub", "neither"}

AfterTypesetCallUnawaited(mj) == "settle"

\* Where generatePDF is once _typeset was called: lines 346-352 return a
\* promise that line 67 awaits, lines 345 and 353 return at once.
AfterTypesetCall(mj) ==
    IF mj \in {"typesetPromise", "Hub"} THEN "typesetting" ELSE "settle"

\* Line 67 calls _typeset(wrapper), which finds window.MathJax as mj.
typeset_call(mj) ==
    /\ pc = "typeset"
    /\ typesetVia' = mj
    /\ stages' = stages \cup {"typeset"}
    /\ pc' = AfterTypesetCall(mj)
    /\ UNCHANGED <<options, hostChildren, items, wrapper, cards, bigCanvas, error,
                   consoleLog, runCount, runsLog>>
    /\ UNCHANGED slicerVars
    /\ UNCHANGED assemblerVars
    /\ UNCHANGED pageVars
    /\ UNCHANGED serverVars

\* MathJax.typesetPromise resolves, or the Hub queue reaches the callback
\* queued behind its Typeset entry: typesetting is complete.
typeset_resolve ==
    /\ pc = "typesetting"
    /\ stages' = stages \cup {"typeset-done"}
    /\ pc' = "settle"
    /\ UNCHANGED <<options, hostChildren, items, wrapper, cards, typesetVia,
                   bigCanvas, error, consoleLog, runCount, runsLog>>
    /\ UNCHANGED slicerVars
    /\ UNCHANGED assemblerVars
    /\ UNCHANGED pageVars
    /\ UNCHANGED serverVars

\* MathJax.typesetPromise rejects.
typeset_reject ==
    /\ pc = "typesetting"
    /\ typesetVia = "typesetPromise"
    /\ Throw("typeset failed")
    /\ UNCHANGED <<options, hostChildren, items, wrapper, cards, typesetVia,
                   bigCanvas, consoleLog, stages, runCount, runsLog>>
    /\ UNCHANGED slicerVars
    /\ UNCHANGED assemblerVars
    /\ UNCHANGED pageVars
    /\ UNCHANGED serverVars

\* Line 68: the timer of 120 ms fires and line 71 calls html2canvas; the run
\* then waits at "capture" for the promise html2canvas returned.
layoutSettle ==
    /\ pc = "settle"
    /\ pc' = "capture"
    /\ UNCHANGED <<options, hostChildren, items, wrapper, cards, typesetVia,
                   bigCanvas, error, consoleLog, stages, runCount, runsLog>>
    /\ UNCHANGED slicerVars
    /\ UNCHANGED assemblerVars
    /\ UNCHANGED pageVars
    /\ UNCHANGED serverVars

(***************************************************************************)
(* html2canvas(wrapper, {scale: rasterScale}), lines 71-77.                *)
(***************************************************************************)
CanvasOf(w) ==
    [width |-> FloorScaled(options.contentWidthPx, options.rasterScale),
     height |-> FloorScaled(w.height, options.rasterScale)]

html2canvas_resolve ==
    /\ pc = "capture"
    /\ bigCanvas' = CanvasOf(wrapper)
    /\ stages' = stages \cup {"capture"}
    /\ pc' = "compute"
    /\ UNCHANGED <<options, hostChildren, items, wrapper, cards, typesetVia, error,
                   consoleLog, runCount, runsLog>>
    /\ UNCHANGED slicerVars
    /\ UNCHANGED assemblerVars
    /\ UNCHANGED pageVars
    /\ UNCHANGED serverVars

html2canvas_reject ==
    /\ pc = "capture"
    /\ stages' = stages \cup {"capture"}
    /\ Throw("capture failed")
    /\ UNCHANGED <<options, hostChildren, items, wrapper, cards, typesetVia,
                   bigCanvas, consoleLog, runCount, runsLog>>
    /\ UNCHANGED slicerVars
    /\ UNCHANGED assemblerVars
    /\ UNCHANGED pageVars
    /\ UNCHANGED serverVars

(***************************************************************************)
(* _computePageSlices, lines 185-279.                                      *)
(***************************************************************************)
\* new this.jsPDF(...) throws on an unit or format it does not know.
jsPDF_reject ==
    /\ pc = "compute"
    /\ stages' = stages \cup {"slice"}
    /\ Throw("jsPDF failed")
    /\ UNCHANGED <<options, hostChildren, items, wrapper, cards, typesetVia,
                   bigCanvas, consoleLog, runCount, runsLog>>
    /\ UNCHANGED slicerVars
    /\ UNCHANGED assemblerVars
    /\ UNCHANGED pageVars
    /\ UNCHANGED serverVars

\* Math.floor(usableHeightPt / pxToPt), pxToPt the rational <<num, den>>.
PageSliceHeightPx(usableHeightPt, pxToPt) ==
    FloorDiv(usableHeightPt * pxToPt[2], pxToPt[1])

\* Lines 192-200.
GeometryOf(o, canvas) ==
    LET margin == o.pageMarginPt
        usableWidthPt == o.pageWidthPt - 2 * margin
        usableHeightPt == o.pageHeightPt - 2 * margin
        pxToPt == <<usableWidthPt, canvas.width>>
    IN  [usableWidthPt |-> usableWidthPt,
         usableHeightPt |-> usableHeightPt,
         margin |-> margin,
         pxToPt |-> pxToPt,
         pageSliceHeightPx |-> PageSliceHeightPx(usableHeightPt, pxToPt)]

RelativeTopUnanchored(rTop, wrapperTop, scrollTop) == rTop + scrollTop

\* (r.top - wrapperTop) + wrapper.scrollTop
RelativeTop(rTop, wrapperTop, scrollTop) == (rTop - wrapperTop) + scrollTop

\* Lines 203-212; the wrapper does not scroll.
CardRectPx(i) ==
    LET r == CardClientRect(i)
        topPx == RelativeTop(r.top, WrapperTop, 0)
    IN  [topPx |-> RoundScaled(topPx, options.rasterScale),
         heightPx |-> RoundScaled(r.height, options.rasterScale)]

computePageSlices_begin ==
    /\ pc = "compute"
    /\ stages' = stages \cup {"slice"}
    /\ geometry' = GeometryOf(options, bigCanvas)
    /\ cardRectsPx' = [i \in 1..Len(cards) |-> CardRectPx(i)]
    /\ slices' = <<>>
    /\ pageStartPx' = 0
    /\ usedPx' = 0
    /\ currentIndex' = 0
    /\ lastCardBottomPx' = 0
    /\ sliceCards' = <<>>
    /\ placed' = <<>>
    /\ forced' = {}
    /\ pc' = "outer"
    /\ UNCHANGED <<options, hostChildren, items, wrapper, cards, typesetVia,
                   bigCanvas, error, consoleLog, runCount, runsLog>>
    /\ UNCHANGED assemblerVars
    /\ UNCHANGED pageVars
    /\ UNCHANGED serverVars

\* Lines 222-226: the outer loop is entered.
computePageSlices_page ==
    /\ pc = "outer"
    /\ currentIndex < Len(cardRectsPx)
    /\ usedPx' = 0
    /\ lastCardBottomPx' = pageStartPx
    /\ placed' = <<>>
    /\ pc' = "inner"
    /\ UNCHANGED <<options, hostChildren, items, wrapper, cards, typesetVia,
                   bigCanvas, error, consoleLog, stages, runCount, runsLog,
                   geometry, cardRectsPx, slices, pageStartPx, currentIndex,
                   sliceCards, forced>>
    /\ UNCHANGED assemblerVars
    /\ UNCHANGED pageVars
    /\ UNCHANGED serverVars

\* Line 278: the outer loop is left and the slice list returned.
computePageSlices_return ==
    /\ pc = "outer"
    /\ ~(currentIndex < Len(cardRectsPx))
    /\ runsLog' = runsLog \cup
            {[run |-> runCount, items |-> items, slices |-> slices]}
    /\ pc' = "remove"
    /\ UNCHANGED <<options, hostChildren, items, wrapper, cards, typesetVia,
                   bigCanvas, error, consoleLog, stages, runCount>>
    /\ UNCHANGED slicerVars
    /\ UNCHANGED assemblerVars
    /\ UNCHANGED pageVars
    /\ UNCHANGED serverVars

PageStartKept(used, start, cardTopPx) == start

\* Lines 233-235: the first card of a page gives the page its start.
PageStartFor(used, start, cardTopPx) == IF used = 0 THEN cardTopPx ELSE start

FitsStrictly(nextUsedPx, pageMaxPx) == nextUsedPx < pageMaxPx

FitsAlways(nextUsedPx, pageMaxPx) == TRUE

\* Line 239
Fits(nextUsedPx, pageMaxPx) == nextUsedPx <= pageMaxPx

AdvanceSkipping(index) == index + 2

AdvanceStuck(index) == index

\* currentIndex += 1, lines 243 and 273
Advance(index) == index + 1

\* Lines 227-248: one pass of the inner loop.
computePageSlices_card ==
    /\ pc = "inner"
    /\ IF currentIndex < Len(cardRectsPx)
       THEN LET c == cardRectsPx[currentIndex + 1]
                cardTopPx == c.topPx
                cardBottomPx == c.topPx + c.heightPx
                start == PageStartFor(usedPx, pageStartPx, cardTopPx)
                nextUsedPx == cardBottomPx - start
            IN  /\ pageStartPx' = start
                /\ IF Fits(nextUsedPx, geometry.pageSliceHeightPx)
                   THEN /\ usedPx' = nextUsedPx
                        /\ lastCardBottomPx' = cardBottomPx
                        /\ currentIndex' = Advance(currentIndex)
                        /\ placed' = Append(placed, currentIndex + 1)
                        /\ pc' = "inner"
                   ELSE /\ pc' = "push"
                        /\ UNCHANGED <<usedPx, lastCardBottomPx, currentIndex, placed>>
       ELSE /\ pc' = "push"
            /\ UNCHANGED <<pageStartPx, usedPx, lastCardBottomPx, currentIndex,
                           placed>>
    /\ UNCHANGED <<options, hostChildren, items, wrapper, cards, typesetVia,
                   bigCanvas, error, consoleLog, stages, runCount, runsLog,
                   geometry, cardRectsPx, slices, sliceCards, forced>>
    /\ UNCHANGED assemblerVars
    /\ UNCHANGED pageVars
    /\ UNCHANGED serverVars

SliceOf(yStartPx, yEndPx, g) ==
    [yStartPx |-> yStartPx,
     yEndPx |-> yEndPx,
     usableWidthPt |-> g.usableWidthPt,
     pxToPt |-> g.pxToPt,
     margin |-> g.margin,
     usableHeightPt |-> g.usableHeightPt]

PackedSliceFullPage(start, lastBottom, g) ==
    SliceOf(start, start + g.pageSliceHeightPx, g)

PackedSliceFromPreviousEnd(start, lastBottom, g) ==
    SliceOf(IF slices = <<>> THEN 0 ELSE slices[Len(slices)].yEndPx, lastBottom, g)

\* Lines 252-259
PackedSlice(start, lastBottom, g) == SliceOf(start, lastBottom, g)

ForcedSliceWhole(c, g) == SliceOf(c.topPx, c.topPx + c.heightPx, g)

\* Lines 264-272
ForcedSlice(c, g) ==
    SliceOf(c.topPx, c.topPx + Min(c.heightPx, g.pageSliceHeightPx), g)

\* Lines 251-261: the page holds at least one card.
computePageSlices_push ==
    /\ pc = "push"
    /\ usedPx > 0
    /\ slices' = Append(slices, PackedSlice(pageStartPx, lastCardBottomPx, geometry))
    /\ pageStartPx' = lastCardBottomPx
    /\ sliceCards' = Append(sliceCards, placed)
    /\ pc' = "outer"
    /\ UNCHANGED <<options, hostChildren, items, wrapper, cards, typesetVia,
                   bigCanvas, error, consoleLog, stages, runCount, runsLog,
                   geometry, cardRectsPx, usedPx, currentIndex, lastCardBottomPx,
                   placed, forced>>
    /\ UNCHANGED assemblerVars
    /\ UNCHANGED pageVars
    /\ UNCHANGED serverVars

\* Lines 262-275: no card was placed; the card at the cursor is forced onto a
\* page of its own.  Reading past the list is a TypeError.
computePageSlices_force ==
    /\ pc = "push"
    /\ ~(usedPx > 0)
    /\ IF currentIndex < Len(cardRectsPx)
       THEN LET s == ForcedSlice(cardRectsPx[currentIndex + 1], geometry)
            IN  /\ slices' = Append(slices, s)
                /\ currentIndex' = Advance(currentIndex)
                /\ pageStartPx' = s.yEndPx
                /\ placed' = Append(placed, currentIndex + 1)
                /\ sliceCards' = Append(sliceCards, placed')
                /\ forced' = forced \cup {Len(slices) + 1}
                /\ pc' = "outer"
                /\ UNCHANGED error
       ELSE /\ Throw("TypeError")
            /\ UNCHANGED <<slices, currentIndex, pageStartPx, placed, sliceCards,
                           forced>>
    /\ UNCHANGED <<options, hostChildren, items, wrapper, cards, typesetVia,
                   bigCanvas, consoleLog, stages, runCount, runsLog,
                   geometry, cardRectsPx, usedPx, lastCardBottomPx>>
    /\ UNCHANGED assemblerVars
    /\ UNCHANGED pageVars
    /\ UNCHANGED serverVars

(***************************************************************************)
(* generatePDF line 83 and _buildPdfFromSlices, lines 284-342.             *)
(***************************************************************************)
\* this.renderHost.removeChild(wrapper), then the document of the assembler
\* is constructed: it starts with one page.
removeWrapper ==
    /\ pc = "remove"
    /\ hostChildren' = RemoveChild(hostChildren, wrapper.id)
    /\ stages' = stages \cup {"remove", "assemble"}
    /\ pdfPages' = <<<<>>>>
    /\ first' = TRUE
    /\ sliceIndex' = 1
    /\ pc' = "assemble"
    /\ UNCHANGED <<options, items, wrapper, cards, typesetVia, bigCanvas, error,
                   consoleLog, runCount, runsLog, saved>>
    /\ UNCHANGED slicerVars
    /\ UNCHANGED pageVars
    /\ UNCHANGED serverVars

SliceHeightPtUnscaled(sliceHeightPx, pxToPt) == <<sliceHeightPx, 1>>

\* sliceHeightPx * pxToPt, a rational <<num, den>>
SliceHeightPt(sliceHeightPx, pxToPt) == <<sliceHeightPx * pxToPt[1], pxToPt[2]>>

PlacedImageRecomputed(slice, canvas) ==
    LET sliceHeightPx == slice.yEndPx - slice.yStartPx
    IN  [sourceY |-> slice.yStartPx,
         imageWidthPx |-> canvas.width,
         imageHeightPx |-> sliceHeightPx,
         x |-> slice.margin,
         y |-> slice.margin,
         widthPt |-> slice.usableWidthPt,
         heightPt |-> SliceHeightPt(sliceHeightPx,
                                    <<slice.usableWidthPt, options.contentWidthPx>>)]

\* Lines 303-338: the sub-image cut by drawImage and where addImage puts it.
PlacedImage(slice, canvas) ==
    LET sliceHeightPx == slice.yEndPx - slice.yStartPx
    IN  [sourceY |-> slice.yStartPx,
         imageWidthPx |-> canvas.width,
         imageHeightPx |-> sliceHeightPx,
         x |-> slice.margin,
         y |-> slice.margin,
         widthPt |-> slice.usableWidthPt,
         heightPt |-> SliceHeightPt(sliceHeightPx, slice.pxToPt)]

AddToDocumentAlwaysNewPage(pages, isFirst, image) == Append(pages, <<image>>)

\* if (!first) pdf.addPage(); pdf.addImage(...)
AddToDocument(pages, isFirst, image) ==
    IF isFirst
    THEN [pages EXCEPT ![Len(pages)] = Append(@, image)]
    ELSE Append(pages, <<image>>)

buildPdfFromSlices_slice ==
    /\ pc = "assemble"
    /\ sliceIndex <= Len(slices)
    /\ pdfPages' = AddToDocument(pdfPages, first,
                                 PlacedImage(slices[sliceIndex], bigCanvas))
    /\ first' = FALSE
    /\ sliceIndex' = sliceIndex + 1
    /\ UNCHANGED <<options, hostChildren, pc, items, wrapper, cards, typesetVia,
                   bigCanvas, error, consoleLog, stages, runCount, runsLog, saved>>
    /\ UNCHANGED slicerVars
    /\ UNCHANGED pageVars
    /\ UNCHANGED serverVars

\* toDataURL or addImage throws for the slice at hand.
buildPdfFromSlices_reject ==
    /\ pc = "assemble"
    /\ sliceIndex <= Len(slices)
    /\ Throw("encoding failed")
    /\ UNCHANGED <<options, hostChildren, items, wrapper, cards, typesetVia,
                   bigCanvas, consoleLog, stages, runCount, runsLog>>
    /\ UNCHANGED slicerVars
    /\ UNCHANGED assemblerVars
    /\ UNCHANGED pageVars
    /\ UNCHANGED serverVars

LoopDoneEarly(index, list) == index >= Len(list)

\* The for loop of line 294 has gone through the whole list.
LoopDone(index, list) == index > Len(list)

\* Line 341
buildPdfFromSlices_save ==
    /\ pc = "assemble"
    /\ LoopDone(sliceIndex, slices)
    /\ saved' = saved + 1
    /\ stages' = stages \cup {"save"}
    /\ pc' = "done"
    /\ UNCHANGED <<options, hostChildren, items, wrapper, cards, typesetVia,
                   bigCanvas, error, consoleLog, runCount, runsLog, sliceIndex,
                   first, pdfPages>>
    /\ UNCHANGED slicerVars
    /\ UNCHANGED pageVars
    /\ UNCHANGED serverVars

(***************************************************************************)
(* The click handler of the download button, src/unnamed/part_000, lines   *)
(* 169-179.  It shows the loading panel and constructs the generator, so   *)
(* that the initial state has the panel shown; what follows the await of   *)
(* generatePDF is below.                                                   *)
(***************************************************************************)
GenericFailureMessage == "Failed to generate PDF."

\* The argument of showError in the catch clause, line 177.
ShownOnFailure(e) == GenericFailureMessage

\* Line 174: generatePDF resolved, hideLoading().
downloadBtn_resolved ==
    /\ pc = "done"
    /\ loadingShown
    /\ loadingShown' = FALSE
    /\ UNCHANGED <<errorShown, peer>>
    /\ UNCHANGED runVars
    /\ UNCHANGED slicerVars
    /\ UNCHANGED assemblerVars
    /\ UNCHANGED serverVars

\* Lines 175-178: generatePDF rejected with e; hideLoading(), showError(...).
downloadBtn_caught ==
    /\ pc = "failed"
    /\ loadingShown
    /\ loadingShown' = FALSE
    /\ errorShown' = ShownOnFailure(error)
    /\ UNCHANGED peer
    /\ UNCHANGED runVars
    /\ UNCHANGED slicerVars
    /\ UNCHANGED assemblerVars
    /\ UNCHANGED serverVars

(***************************************************************************)
(* Specifications.                                                         *)
(***************************************************************************)
\* The steps of a started run.
RunStep ==
    \/ \E mj \in MathJaxInterfaces : typeset_call(mj)
    \/ typeset_resolve
    \/ typeset_reject
    \/ layoutSettle
    \/ html2canvas_resolve
    \/ html2canvas_reject
    \/ jsPDF_reject
    \/ computePageSlices_begin
    \/ computePageSlices_page
    \/ computePageSlices_card
    \/ computePageSlices_push
    \/ computePageSlices_force
    \/ computePageSlices_return
    \/ removeWrapper
    \/ buildPdfFromSlices_slice
    \/ buildPdfFromSlices_reject
    \/ buildPdfFromSlices_save
    \/ downloadBtn_resolved
    \/ downloadBtn_caught

\* One generator, one call of generatePDF, over the wide inputs.
Next ==
    \/ \E its \in WideItems : generatePDF_reject(its)
    \/ \E its \in WideItems : generatePDF_build(its)
    \/ RunStep

Spec == Init /\ [][Next]_vars

\* Inputs of the specification of repeated runs.
NarrowOptions ==
    {[pageWidthPt |-> p[1], pageHeightPt |-> p[2], pageMarginPt |-> 1,
      contentWidthPx |-> ContentWidth, rasterScale |-> <<3, 2>>,
      blockSpacingPx |-> 1] : p \in PageSizes}

NarrowItems == {ArrayOf(l) : l \in SeqsUpTo({1, 3}, 2)}

InitRuns == InitWith(NarrowOptions)

\* generatePDF has settled, its caller has gone on, and generatePDF is called
\* again with the same options: the locals of the run are gone, this.options
\* and the render host are kept, the loading panel is shown again.
generatePDF_again ==
    /\ pc \in {"done", "failed"}
    /\ ~loadingShown
    /\ runCount < MaxRuns
    /\ loadingShown' = TRUE
    /\ pc' = "idle"
    /\ items' = NoItems
    /\ wrapper' = NoWrapper
    /\ cards' = <<>>
    /\ typesetVia' = "none"
    /\ bigCanvas' = NoCanvas
    /\ geometry' = NoGeometry
    /\ cardRectsPx' = <<>>
    /\ slices' = <<>>
    /\ pageStartPx' = 0
    /\ usedPx' = 0
    /\ currentIndex' = 0
    /\ lastCardBottomPx' = 0
    /\ sliceCards' = <<>>
    /\ placed' = <<>>
    /\ forced' = {}
    /\ sliceIndex' = 0
    /\ first' = TRUE
    /\ pdfPages' = <<>>
    /\ saved' = 0
    /\ error' = ""
    /\ stages' = {}
    /\ UNCHANGED <<options, hostChildren, consoleLog, runCount, runsLog,
                   errorShown, peer>>
    /\ UNCHANGED serverVars

\* One generator called up to MaxRuns times, one call after the other.
NextRuns ==
    \/ \E its \in NarrowItems : generatePDF_reject(its)
    \/ \E its \in NarrowItems : generatePDF_build(its)
    \/ RunStep
    \/ generatePDF_again

SpecRuns == InitRuns /\ [][NextRuns]_vars

(***************************************************************************)
(* A second run of generatePDF on the same render host: the download       *)
(* button is clicked again while the first run is suspended, and the new   *)
(* generator finds the pdfRenderContainer of the first (lines 43-51).      *)
(* The engine runs one run at a time and switches at an await only, so a   *)
(* step of the second run is what it executes between two switches.        *)
(***************************************************************************)
\* generatePDF is at an await, or not running: another run may go on.
Yielded == pc \notin {"compute", "outer", "inner", "push", "remove", "assemble"}

\* Lines 227-248 as a function: the inner loop from card index + 1 on.
RECURSIVE InnerLoop(_, _, _, _, _, _)
InnerLoop(rects, pageMaxPx, index, start, used, lastBottom) ==
    IF index < Len(rects)
    THEN LET c == rects[index + 1]
             cardBottomPx == c.topPx + c.heightPx
             st == PageStartFor(used, start, c.topPx)
             nextUsedPx == cardBottomPx - st
         IN  IF Fits(nextUsedPx, pageMaxPx)
             THEN InnerLoop(rects, pageMaxPx, Advance(index), st, nextUsedPx,
                            cardBottomPx)
             ELSE [index |-> index, start |-> st, used |-> used,
                   lastBottom |-> lastBottom]
    ELSE [index |-> index, start |-> start, used |-> used,
          lastBottom |-> lastBottom]

\* Lines 222-278 as a function: the slice list, or thrown when the fallback
\* reads past the card list.
RECURSIVE OuterLoop(_, _, _, _, _)
OuterLoop(rects, g, index, start, acc) ==
    IF index < Len(rects)
    THEN LET r == InnerLoop(rects, g.pageSliceHeightPx, index, start, 0, start)
         IN  IF r.used > 0
             THEN OuterLoop(rects, g, r.index, r.lastBottom,
                            Append(acc, PackedSlice(r.start, r.lastBottom, g)))
             ELSE IF r.index < Len(rects)
                  THEN LET f == ForcedSlice(rects[r.index + 1], g)
                       IN  OuterLoop(rects, g, Advance(r.index), f.yEndPx,
                                     Append(acc, f))
                  ELSE [thrown |-> TRUE, slices |-> acc]
    ELSE [thrown |-> FALSE, slices |-> acc]

\* _computePageSlices on the card rectangles rects under geometry g.
SlicesOf(rects, g) == OuterLoop(rects, g, 0, 0, <<>>)

\* Lines 292-339 as a function: the pages after the slices from k on.
RECURSIVE PlaceFrom(_, _, _, _, _)
PlaceFrom(list, canvas, k, isFirst, pages) ==
    IF k > Len(list)
    THEN pages
    ELSE PlaceFrom(list, canvas, k + 1, FALSE,
                   AddToDocument(pages, isFirst, PlacedImage(list[k], canvas)))

\* _buildPdfFromSlices: the document it saves.
DocumentOf(list, canvas) == PlaceFrom(list, canvas, 1, TRUE, <<(<<>>)>>)

\* wrapper.getBoundingClientRect().top, for the wrapper of the second run
PeerWrapperTop == ChildTop(hostChildren, IndexOfChild(hostChildren, peer.wrapper.id))

\* Lines 203-212, for card i of the second run.
PeerCardRectPx(i) ==
    LET list == peer.items.list
        rTop == PeerWrapperTop + CardOffset(list, i, options.blockSpacingPx)
        topPx == RelativeTop(rTop, PeerWrapperTop, 0)
    IN  [topPx |-> RoundScaled(topPx, options.rasterScale),
         heightPx |-> RoundScaled(list[i], options.rasterScale)]

\* Lines 58-64 of the second run: its wrapper is appended to the same host.
peer_generatePDF_build(its) ==
    /\ Yielded
    /\ peer.pc = "idle"
    /\ ~IsEmptyInput(its)
    /\ runCount' = runCount + 1
    /\ LET w == [id |-> runCount + 1,
                 height |-> WrapperHeight(its.list, options.blockSpacingPx)]
       IN  /\ peer' = [peer EXCEPT !.pc = "pending", !.items = its, !.wrapper = w]
           /\ hostChildren' = Append(hostChildren, w)
    /\ UNCHANGED <<options, pc, items, wrapper, cards, typesetVia, bigCanvas,
                   error, consoleLog, stages, runsLog, loadingShown, errorShown>>
    /\ UNCHANGED slicerVars
    /\ UNCHANGED assemblerVars
    /\ UNCHANGED serverVars

\* The typesetting or the capture of the second run rejects (lines 67, 71).
peer_generatePDF_reject ==
    /\ Yielded
    /\ peer.pc = "pending"
    /\ peer' = [peer EXCEPT !.pc = "failed", !.error = "rejected"]
    /\ UNCHANGED <<loadingShown, errorShown>>
    /\ UNCHANGED runVars
    /\ UNCHANGED slicerVars
    /\ UNCHANGED assemblerVars
    /\ UNCHANGED serverVars

\* html2canvas resolves for the second run, and lines 80-86 run to the end:
\* the cards are measured and sliced, the wrapper removed, the document
\* assembled and saved.
peer_generatePDF_finish ==
    /\ Yielded
    /\ peer.pc = "pending"
    /\ LET canvas == CanvasOf(peer.wrapper)
           rects == [i \in 1..Len(peer.items.list) |-> PeerCardRectPx(i)]
           r == SlicesOf(rects, GeometryOf(options, canvas))
       IN  IF r.thrown
           THEN /\ peer' = [peer EXCEPT !.pc = "failed", !.error = "TypeError",
                                        !.bigCanvas = canvas,
                                        !.cardRectsPx = rects]
                /\ UNCHANGED hostChildren
           ELSE /\ peer' = [peer EXCEPT !.pc = "done",
                                        !.bigCanvas = canvas,
                                        !.cardRectsPx = rects,
                                        !.slices = r.slices,
                                        !.pdfPages = DocumentOf(r.slices, canvas),
                                        !.saved = 1]
                /\ hostChildren' = RemoveChild(hostChildren, peer.wrapper.id)
    /\ UNCHANGED <<options, pc, items, wrapper, cards, typesetVia, bigCanvas,
                   error, consoleLog, stages, runCount, runsLog, loadingShown,
                   errorShown>>
    /\ UNCHANGED slicerVars
    /\ UNCHANGED assemblerVars
    /\ UNCHANGED serverVars

\* Two runs on one render host, interleaved at their awaits.
NextPair ==
    \/ \E its \in NarrowItems : generatePDF_reject(its)
    \/ \E its \in NarrowItems : generatePDF_build(its)
    \/ RunStep
    \/ \E its \in NarrowItems : peer_generatePDF_build(its)
    \/ peer_generatePDF_reject
    \/ peer_generatePDF_finish

SpecPair == InitRuns /\ [][NextPair]_vars

(***************************************************************************)
(* The server, src/unnamed/part_002 (part_003 is the same code without its *)
(* comments).  Line numbers are those of part_002.                         *)
(***************************************************************************)
MaxTextLen == 4
MaxChunkSize == 3

Characters == {"a", "b"}
Texts == SeqsUpTo(Characters, MaxTextLen)

clientVars == <<runVars, slicerVars, assemblerVars, pageVars>>

\* The generator of the page, at rest while the server is looked at.
ClientAtRest == ClientInit({o \in NarrowOptions : o.pageWidthPt = 5})

\* t.substring(from, to) for 0 <= from <= to
Substring(t, from, to) == SubSeq(t, Min(from, Len(t)) + 1, Min(to, Len(t)))

NextChunkStartSkipping(i, size) == i + size + 1

\* i += chunkSize, line 52
NextChunkStart(i, size) == i + size

\* Line 52: one pass of the loop of chunkText.
chunkText_push ==
    /\ srvPc = "chunk"
    /\ chunkI < Len(text)
    /\ chunks' = Append(chunks, Substring(text, chunkI, chunkI + chunkSize))
    /\ chunkI' = NextChunkStart(chunkI, chunkSize)
    /\ UNCHANGED <<srvPc, hasFile, uploadExists, apiKeySet, text, chunkSize,
                   llmIndex, all, dedupeIndex, best, content, responses, trace>>
    /\ UNCHANGED clientVars

\* Line 53: chunkText returns, and its caller starts its loop (lines 117-119).
chunkText_return ==
    /\ srvPc = "chunk"
    /\ ~(chunkI < Len(text))
    /\ srvPc' = "llm"
    /\ llmIndex' = 0
    /\ all' = <<>>
    /\ UNCHANGED <<hasFile, uploadExists, apiKeySet, text, chunkSize, chunkI,
                   chunks, dedupeIndex, best, content, responses, trace>>
    /\ UNCHANGED clientVars

\* chunkText on every text and chunk size of the bounds.
InitChunk ==
    /\ ClientAtRest
    /\ \E t \in Texts : \E size \in 1..MaxChunkSize :
            ServerInit("chunk", FALSE, FALSE, t, size, <<>>)

NextChunk ==
    \/ chunkText_push
    \/ chunkText_return

SpecChunk == InitChunk /\ [][NextChunk]_vars

(***************************************************************************)
(* normalizeNumberedTitle and dedupeByNumberedTitle, lines 65-112.  A      *)
(* title is taken word by word: the word it starts with, the number chain  *)
(* after it and what follows, each "" when absent; a key is the sequence   *)
(* of the words of the string the function returns.                        *)
(***************************************************************************)
MaxDedupeItems == 3

NoContent == [present |-> FALSE, chars |-> <<>>]
ContentOf(chars) == [present |-> TRUE, chars |-> chars]

TitleOf(head, num, tail) == [head |-> head, num |-> num, tail |-> tail]

\* String.prototype.toLowerCase on the words of the titles and types used.
Lower(w) ==
    CASE w \in {"Proposition", "PROPOSITION", "proposition"} -> "proposition"
      [] w \in {"Theorem", "theorem"} -> "theorem"
      [] w \in {"Prop.", "prop."} -> "prop."
      [] w = "(Archimedean Property)" -> "(archimedean property)"
      [] OTHER -> w

\* The alternatives of the regular expression of line 77.
Keywords ==
    {"definition", "theorem", "lemma", "proposition", "corollary", "axiom",
     "prop.", "prop", "cor.", "cor"}

\* Lines 72-74 and 81: the abbreviations written out.
ExpandHead(h) ==
    CASE h \in {"prop.", "prop"} -> "proposition"
      [] h \in {"cor.", "cor"} -> "corollary"
      [] OTHER -> h

\* The words of a string, the absent ones left out.
Words(ws) == SelectSeq(ws, LAMBDA w : w # "")

\* Line 68 trims the punctuation the title ends with.
TrimTail(tail) == IF tail \in {".", ":", ";", ",", "-"} THEN "" ELSE tail

\* normalizeNumberedTitle(title, fallbackType), lines 65-90.
NormalizeNumberedTitle(title, fallbackType) ==
    LET head == Lower(title.head)
        norm == Words(<<ExpandHead(head), title.num, Lower(TrimTail(title.tail))>>)
    IN  IF head \in Keywords /\ title.num # ""
        THEN <<ExpandHead(head), title.num>>
        ELSE IF title.num # "" /\ fallbackType # ""
             THEN <<Lower(fallbackType), title.num>>
             ELSE IF norm # <<>>
                  THEN norm
                  ELSE Words(<<Lower(fallbackType)>>)

\* The items the de-duplication is tried on: three writings of proposition
\* 1.2, two of them as long as each other, two of theorem 1.2, one of
\* them a bare number with the type theorem and no content, and an item
\* with neither title nor type.
SampleItems ==
    {[type |-> "proposition",
      title |-> TitleOf("Proposition", "1.2", "(Archimedean Property)"),
      content |-> ContentOf(<<"a", "b">>)],
     [type |-> "proposition",
      title |-> TitleOf("prop.", "1.2", ""),
      content |-> ContentOf(<<"a">>)],
     [type |-> "Proposition",
      title |-> TitleOf("PROPOSITION", "1.2", "."),
      content |-> ContentOf(<<"b", "a">>)],
     [type |-> "theorem",
      title |-> TitleOf("Theorem", "1.2", ""),
      content |-> ContentOf(<<>>)],
     [type |-> "theorem",
      title |-> TitleOf("", "1.2", ""),
      content |-> NoContent],
     [type |-> "",
      title |-> TitleOf("", "", ""),
      content |-> ContentOf(<<"a">>)]}

\* (it.content || '').length
ContentLength(it) == IF it.content.present THEN Len(it.content.chars) ELSE 0

\* The key dedupeByNumberedTitle files an item under, line 95.
KeyOf(it) == NormalizeNumberedTitle(it.title, it.type)

\* best.get(key): the position of the entry of key, 0 when there is none.
MapGet(m, key) ==
    IF \E n \in 1..Len(m) : m[n].key = key
    THEN CHOOSE n \in 1..Len(m) : m[n].key = key
    ELSE 0

\* best.set(key, it): a new key goes to the end, a known one keeps its place.
\* The field from is history: the position of the item in the input.
MapSet(m, key, it, from) ==
    LET n == MapGet(m, key)
        entry == [key |-> key, item |-> it, from |-> from]
    IN  IF n = 0 THEN Append(m, entry) ELSE [m EXCEPT ![n] = entry]

ReplacesOnTie(currLen, prevLen) == currLen >= prevLen

\* Line 102
Replaces(currLen, prevLen) == currLen > prevLen

\* Lines 94-104: one pass of the loop of dedupeByNumberedTitle.
dedupe_item ==
    /\ srvPc = "dedupe"
    /\ dedupeIndex <= Len(all)
    /\ LET it == all[dedupeIndex]
           key == KeyOf(it)
           existing == MapGet(best, key)
       IN  best' =
               IF existing = 0
               THEN MapSet(best, key, it, dedupeIndex)
               ELSE IF Replaces(ContentLength(it), ContentLength(best[existing].item))
                    THEN MapSet(best, key, it, dedupeIndex)
                    ELSE best
    /\ dedupeIndex' = dedupeIndex + 1
    /\ UNCHANGED <<srvPc, hasFile, uploadExists, apiKeySet, text, chunkSize,
                   chunkI, chunks, llmIndex, all, content, responses, trace>>
    /\ UNCHANGED clientVars

\* Line 105: Array.from(best.values())
dedupe_return ==
    /\ srvPc = "dedupe"
    /\ dedupeIndex > Len(all)
    /\ content' = [n \in 1..Len(best) |-> best[n].item]
    /\ srvPc' = "respond"
    /\ UNCHANGED <<hasFile, uploadExists, apiKeySet, text, chunkSize, chunkI,
                   chunks, llmIndex, all, dedupeIndex, best, responses, trace>>
    /\ UNCHANGED clientVars

\* dedupeByNumberedTitle on every list of sample items of the bound.
InitDedupe ==
    /\ ClientAtRest
    /\ \E list \in SeqsUpTo(SampleItems, MaxDedupeItems) :
            ServerInit("dedupe", FALSE, FALSE, <<>>, 1, list)

NextDedupe ==
    \/ dedupe_item
    \/ dedupe_return

SpecDedupe == InitDedupe /\ [][NextDedupe]_vars

(***************************************************************************)
(* extractMathContent, lines 115-158, and the handler of POST              *)
(* /api/extract, lines 161-183.                                            *)
(***************************************************************************)
\* chunkText(pdfText, 15000), line 116, in the scale of the texts above.
ExtractChunkSize == 2

\* What the language model's answer parses to for a chunk (lines 147-152):
\* no item at all, as for an answer that is not JSON, or one theorem.
LlmAnswers == {<<>>} \cup {<<it>> : it \in {s \in SampleItems : s.type = "theorem"}}

\* res.status(status).json(body); whether the upload was on disk then is
\* history.
Send(status, body) ==
    /\ responses' = Append(responses,
                           [status |-> status, body |-> body,
                            uploadOnDisk |-> uploadExists])
    /\ srvPc' = "sent"

\* The catch clause of lines 179-182.
Catch == Send(500, "Failed to process PDF")

\* Line 163
extract_noFile ==
    /\ srvPc = "request"
    /\ ~hasFile
    /\ Send(400, "No file uploaded")
    /\ UNCHANGED <<hasFile, uploadExists, apiKeySet, text, chunkSize, chunkI,
                   chunks, llmIndex, all, dedupeIndex, best, content, trace>>
    /\ UNCHANGED clientVars

\* Line 165: fs.readFileSync returns, and pdfParse is called.
extract_readFile ==
    /\ srvPc = "request"
    /\ hasFile
    /\ srvPc' = "parse"
    /\ UNCHANGED <<hasFile, uploadExists, apiKeySet, text, chunkSize, chunkI,
                   chunks, llmIndex, all, dedupeIndex, best, content, responses,
                   trace>>
    /\ UNCHANGED clientVars

\* Line 165: fs.readFileSync throws.
extract_readFile_throws ==
    /\ srvPc = "request"
    /\ hasFile
    /\ Catch
    /\ UNCHANGED <<hasFile, uploadExists, apiKeySet, text, chunkSize, chunkI,
                   chunks, llmIndex, all, dedupeIndex, best, content, trace>>
    /\ UNCHANGED clientVars

AfterParseKeyFirst == "key"

\* The statement after line 166.
AfterParse == "unlink"

\* Line 166: pdfParse resolves with the text t.
pdfParse_resolve(t) ==
    /\ srvPc = "parse"
    /\ text' = t
    /\ trace' = Append(trace, "parsed")
    /\ srvPc' = AfterParse
    /\ UNCHANGED <<hasFile, uploadExists, apiKeySet, chunkSize, chunkI, chunks,
                   llmIndex, all, dedupeIndex, best, content, responses>>
    /\ UNCHANGED clientVars

\* Line 166: pdfParse rejects.
pdfParse_reject ==
    /\ srvPc = "parse"
    /\ Catch
    /\ UNCHANGED <<hasFile, uploadExists, apiKeySet, text, chunkSize, chunkI,
                   chunks, llmIndex, all, dedupeIndex, best, content, trace>>
    /\ UNCHANGED clientVars

\* Line 167: fs.unlinkSync(req.file.path)
extract_unlink ==
    /\ srvPc = "unlink"
    /\ uploadExists' = FALSE
    /\ trace' = Append(trace, "unlink")
    /\ srvPc' = "key"
    /\ UNCHANGED <<hasFile, apiKeySet, text, chunkSize, chunkI, chunks, llmIndex,
                   all, dedupeIndex, best, content, responses>>
    /\ UNCHANGED clientVars

\* Lines 169-171: the key is not set.
extract_keyMissing ==
    /\ srvPc = "key"
    /\ ~apiKeySet
    /\ trace' = Append(trace, "key check")
    /\ Send(500, "OpenAI API key not set on server.")
    /\ UNCHANGED <<hasFile, uploadExists, apiKeySet, text, chunkSize, chunkI,
                   chunks, llmIndex, all, dedupeIndex, best, content>>
    /\ UNCHANGED clientVars

\* Lines 169-173 and 116: the key is set, extractMathContent calls chunkText.
extract_keySet ==
    /\ srvPc = "key"
    /\ apiKeySet
    /\ trace' = Append(trace, "key check")
    /\ chunkSize' = ExtractChunkSize
    /\ chunkI' = 0
    /\ chunks' = <<>>
    /\ srvPc' = "chunk"
    /\ UNCHANGED <<hasFile, uploadExists, apiKeySet, text, llmIndex, all,
                   dedupeIndex, best, content, responses>>
    /\ UNCHANGED clientVars

\* Lines 119-155: the language model answers for chunk llmIndex, and the
\* items its answer parses to are added.
openai_resolve(answer) ==
    /\ srvPc = "llm"
    /\ llmIndex < Len(chunks)
    /\ trace' = Append(trace, "llm call")
    /\ all' = all \o answer
    /\ llmIndex' = llmIndex + 1
    /\ UNCHANGED <<srvPc, hasFile, uploadExists, apiKeySet, text, chunkSize,
                   chunkI, chunks, dedupeIndex, best, content, responses>>
    /\ UNCHANGED clientVars

\* Line 135: the call of the language model rejects, extractMathContent
\* rejects with it, and the handler catches.
openai_reject ==
    /\ srvPc = "llm"
    /\ llmIndex < Len(chunks)
    /\ trace' = Append(trace, "llm call")
    /\ Catch
    /\ UNCHANGED <<hasFile, uploadExists, apiKeySet, text, chunkSize, chunkI,
                   chunks, llmIndex, all, dedupeIndex, best, content>>
    /\ UNCHANGED clientVars

\* Line 157: the loop is through, dedupeByNumberedTitle(all) is called.
extractMathContent_dedupe ==
    /\ srvPc = "llm"
    /\ ~(llmIndex < Len(chunks))
    /\ best' = <<>>
    /\ dedupeIndex' = 1
    /\ srvPc' = "dedupe"
    /\ UNCHANGED <<hasFile, uploadExists, apiKeySet, text, chunkSize, chunkI,
                   chunks, llmIndex, all, content, responses, trace>>
    /\ UNCHANGED clientVars

\* Lines 174-178
extract_respond ==
    /\ srvPc = "respond"
    /\ Send(200, "success")
    /\ UNCHANGED <<hasFile, uploadExists, apiKeySet, text, chunkSize, chunkI,
                   chunks, llmIndex, all, dedupeIndex, best, content, trace>>
    /\ UNCHANGED clientVars

\* One request to /api/extract.
InitExtract ==
    /\ ClientAtRest
    /\ \E file \in BOOLEAN : \E key \in BOOLEAN :
            ServerInit("request", file, key, <<>>, 1, <<>>)

NextExtract ==
    \/ extract_noFile
    \/ extract_readFile
    \/ extract_readFile_throws
    \/ \E t \in Texts : pdfParse_resolve(t)
    \/ pdfParse_reject
    \/ extract_unlink
    \/ extract_keyMissing
    \/ extract_keySet
    \/ chunkText_push
    \/ chunkText_return
    \/ \E answer \in LlmAnswers : openai_resolve(answer)
    \/ openai_reject
    \/ extractMathContent_dedupe
    \/ dedupe_item
    \/ dedupe_return
    \/ extract_respond

SpecExtract == InitExtract /\ [][NextExtract]_vars

(***************************************************************************)
(* Properties of the slice list _computePageSlices returns.                *)
(***************************************************************************)
\* The state in which the slice list has just been returned (line 80).
Returned == pc = "remove"

NumCards == Len(cardRectsPx)
NumSlices == Len(slices)
Capacity == geometry.pageSliceHeightPx
Top(i) == cardRectsPx[i].topPx
Bottom(i) == cardRectsPx[i].topPx + cardRectsPx[i].heightPx
SliceHeightPx(k) == slices[k].yEndPx - slices[k].yStartPx

PositiveHeights == \A i \in 1..NumCards : cardRectsPx[i].heightPx > 0
NonOverlapping == \A i \in 1..(NumCards - 1) : Bottom(i) <= Top(i + 1)
PositiveCapacity == Capacity > 0
ValidRects == PositiveHeights /\ NonOverlapping

StrictlyInside(y, i) == Top(i) < y /\ y < Bottom(i)

RECURSIVE Flatten(_)
Flatten(ss) == IF ss = <<>> THEN <<>> ELSE Head(ss) \o Flatten(Tail(ss))

RECURSIVE SumOfSliceHeights(_)
SumOfSliceHeights(k) ==
    IF k = 0 THEN 0 ELSE SliceHeightPx(k) + SumOfSliceHeights(k - 1)

\* C1: with positive heights, non-overlapping rectangles and a positive
\* capacity, no boundary of a returned slice lies strictly inside a card
\* rectangle, except for the slices of the oversized-card fallback, and the
\* fallback is taken only for a card higher than the capacity.
C1_NoSliceCutsACard ==
    (Returned /\ ValidRects /\ PositiveCapacity) =>
        /\ \A k \in (1..NumSlices) \ forced : \A i \in 1..NumCards :
                /\ ~StrictlyInside(slices[k].yStartPx, i)
                /\ ~StrictlyInside(slices[k].yEndPx, i)
        /\ \A k \in forced : \A j \in 1..Len(sliceCards[k]) :
                cardRectsPx[sliceCards[k][j]].heightPx > Capacity

C1_Witness ==
    /\ Returned /\ ValidRects /\ PositiveCapacity
    /\ NumSlices >= 2
    /\ forced # {}
    /\ (1..NumSlices) \ forced # {}

\* The slices whose pixel range holds the top edge of card i.
SlicesHolding(i) ==
    {k \in 1..NumSlices : slices[k].yStartPx <= Top(i) /\ Top(i) < slices[k].yEndPx}

C4_PackingIsMaximal ==
    Returned =>
        /\ \A k \in 1..(NumSlices - 1) :
                Bottom(sliceCards[k + 1][1]) - slices[k].yStartPx > Capacity
        /\ \A k \in (1..NumSlices) \ forced : \A j \in 1..Len(sliceCards[k]) :
                Bottom(sliceCards[k][j]) - slices[k].yStartPx <= Capacity

C4_Witness ==
    /\ Returned
    /\ NumSlices >= 2
    /\ 1 \notin forced
    /\ SliceHeightPx(1) = Capacity
    /\ Len(sliceCards[1]) >= 2

\* C5: on one generator (one geometry configuration), any two runs given the
\* same items return the same slice list, whatever earlier runs left in the
\* render host.
C5_SlicingIsDeterministic ==
    \A a \in runsLog : \A b \in runsLog :
        a.items = b.items => a.slices = b.slices

\* A run has sliced the items a clean earlier run sliced, this time below the
\* wrapper a failed run left in the render host.
C5_Witness ==
    /\ Returned
    /\ Len(hostChildren) >= 2
    /\ WrapperTop > 0
    /\ NumSlices >= 2
    /\ \E a \in runsLog : \E b \in runsLog :
            a.run < b.run /\ b.run = runCount /\ a.items = b.items

(***************************************************************************)
(* Properties of a run of generatePDF.                                     *)
(***************************************************************************)
Settled == pc \in {"done", "failed"}
GeometryComputed == "slice" \in stages /\ geometry # NoGeometry
DegenerateGeometryMessage == "DegenerateGeometryError"

\* C6: a geometry whose capacity is zero or negative makes the slicer fail
\* with a DegenerateGeometryError before it slices, and no slice is produced.
C6_DegenerateGeometryIsRejected ==
    (GeometryComputed /\ Capacity <= 0) =>
        /\ pc = "failed"
        /\ error = DegenerateGeometryMessage
        /\ slices = <<>>

\* What the code does instead: the slice list is returned, every slice of it
\* of zero or negative height.
C6_Divergence ==
    /\ Returned
    /\ Capacity <= 0
    /\ NumSlices >= 1
    /\ \A k \in 1..NumSlices : SliceHeightPx(k) <= 0
    /\ error = ""

\* The argument of the started run is not an array, or is an empty one.
EmptyArgument == pc # "idle" /\ (~items.isArray \/ items.list = <<>>)

\* C7: a run given an empty list or a non-array ends at once, rejected with
\* the empty-input message: no wrapper is built or attached to the render
\* host, no stage is started, no canvas captured and nothing saved.
C7_EmptyInputFailsFirst ==
    EmptyArgument =>
        /\ pc = "failed"
        /\ error = EmptyInputMessage
        /\ wrapper = NoWrapper
        /\ hostChildren = <<>>
        /\ stages = {}
        /\ bigCanvas = NoCanvas
        /\ saved = 0

C7_Witness ==
    /\ EmptyArgument
    /\ items.isArray
    /\ error = EmptyInputMessage

\* The half-open pixel range of slice k meets the rectangle of card j.
Meets(k, j) == Top(j) < slices[k].yEndPx /\ slices[k].yStartPx < Bottom(j)

C8_Witness ==
    /\ Returned /\ ValidRects
    /\ cardRectsPx = <<[topPx |-> 0, heightPx |-> 2000]>>
    /\ Capacity = 1200
    /\ forced = {1}

FlaggedLossy(k) ==
    \/ "lossy" \in DOMAIN slices[k]
    \/ \E e \in 1..Len(consoleLog) : consoleLog[e] = k

\* C9: every slice the oversized-card fallback pushed is marked as lossy, by
\* a flag on the slice or by a log entry.
C9_FallbackIsFlagged == \A k \in forced : FlaggedLossy(k)

\* C10: once a run has settled, its wrapper is not a child of the render host.
C10_WrapperReleasedOnEveryExit ==
    Settled => ~IsChild(hostChildren, wrapper.id)

\* What the code does: a run that failed after the wrapper was attached and
\* before line 83 leaves it in the render host.
C10_Divergence ==
    /\ pc = "failed"
    /\ "build" \in stages
    /\ IsChild(hostChildren, wrapper.id)

(***************************************************************************)
(* Properties of the suspension points of generatePDF.                     *)
(***************************************************************************)
\* The steps the engine takes by itself once generatePDF was called: the
\* statements between two awaits, and the timer of line 68.  The settlement
\* of the promise of MathJax or of html2canvas is not one of them.
OwnStep ==
    \/ \E mj \in MathJaxInterfaces : typeset_call(mj)
    \/ layoutSettle
    \/ computePageSlices_begin
    \/ computePageSlices_page
    \/ computePageSlices_card
    \/ computePageSlices_push
    \/ computePageSlices_force
    \/ computePageSlices_return
    \/ removeWrapper
    \/ buildPdfFromSlices_slice
    \/ buildPdfFromSlices_save

\* The run is suspended on the promise of MathJax or of html2canvas.
Waiting == pc \in {"typesetting", "capture"}

\* C11: the waits for typesetting and for the capture are bounded: while the
\* run is suspended on either promise, a step of its own (the timeout that
\* fails the run) can end the wait, whether or not the promise settles.
C11_WaitsAreBounded == Waiting => ENABLED OwnStep

\* What the code does: line 67 awaits the promise of MathJax with no timer
\* beside it, so that nothing but its settlement moves the run.
C11_Divergence ==
    /\ pc = "typesetting"
    /\ typesetVia = "typesetPromise"
    /\ ~ENABLED OwnStep

\* The cards have been measured (lines 203-212).
Measured == cardRectsPx # <<>>

\* _typeset handed typesetting to MathJax and returned a promise for it.
TypesetAwaited == typesetVia \in {"typesetPromise", "Hub"}

\* C12: the cards are measured only after the typesetting _typeset issued
\* has signalled completion, through typesetPromise and through the Hub queue.
C12_MeasuredAfterTypeset ==
    (Measured /\ TypesetAwaited) => "typeset-done" \in stages

C12_Witness ==
    /\ Measured
    /\ typesetVia = "Hub"
    /\ "typeset-done" \in stages

C12_WitnessPromise ==
    /\ Measured
    /\ typesetVia = "typesetPromise"
    /\ "typeset-done" \in stages

(***************************************************************************)
(* Properties of the document _buildPdfFromSlices assembles.               *)
(***************************************************************************)
\* The slices the loop of line 294 has gone through.
SlicesPlaced == IF "assemble" \in stages THEN sliceIndex - 1 ELSE 0

\* The image addImage put on page i.
ImageOf(i) == pdfPages[i][1]

\* C13: the document has one page for each slice placed, and as many pages
\* as slices once the loop is through; page i holds exactly one image, the
\* one cut from slice i: the first slice goes on the page the document
\* starts with, every later one on a page added for it.
C13_OnePagePerSlice ==
    /\ SlicesPlaced >= 1 =>
            /\ Len(pdfPages) = SlicesPlaced
            /\ \A i \in 1..SlicesPlaced :
                    /\ Len(pdfPages[i]) = 1
                    /\ ImageOf(i).sourceY = slices[i].yStartPx
                    /\ ImageOf(i).imageHeightPx = SliceHeightPx(i)
    /\ pc = "done" => (NumSlices >= 1 /\ SlicesPlaced = NumSlices)

C13_Witness ==
    /\ pc = "done"
    /\ NumSlices >= 2
    /\ Len(pdfPages) = NumSlices

\* C14: pdf.save is called at most once in a run, and only when every slice
\* has its image on its page; a run that failed, at whatever stage, has
\* saved nothing.
C14_NoPartialDocument ==
    /\ saved <= 1
    /\ saved = 1 =>
            /\ pc = "done"
            /\ Len(pdfPages) = NumSlices
            /\ \A i \in 1..NumSlices : Len(pdfPages[i]) = 1
    /\ pc = "failed" => saved = 0

\* A run that failed with a part of its images placed.
C14_Witness ==
    /\ pc = "failed"
    /\ SlicesPlaced >= 1
    /\ SlicesPlaced < NumSlices
    /\ saved = 0

C14_WitnessSaved == saved = 1 /\ NumSlices >= 2

\* C15: one pixel-to-point factor, the usable width over the width of the
\* canvas, serves pagination and assembly: the capacity is derived from it,
\* every slice carries it and the same usable width, and each image is
\* sized with the factor its slice carries.
C15_OneScaleFactor ==
    LET usableWidthPt == options.pageWidthPt - 2 * options.pageMarginPt
        pxToPt == <<usableWidthPt, bigCanvas.width>>
    IN  /\ NumSlices >= 1 =>
                Capacity = PageSliceHeightPx(geometry.usableHeightPt, pxToPt)
        /\ \A k \in 1..NumSlices :
                /\ slices[k].pxToPt = pxToPt
                /\ slices[k].usableWidthPt = usableWidthPt
        /\ \A i \in 1..SlicesPlaced :
                /\ ImageOf(i).widthPt = slices[i].usableWidthPt
                /\ ImageOf(i).heightPt =
                        <<SliceHeightPx(i) * slices[i].pxToPt[1], slices[i].pxToPt[2]>>

\* A document of two images whose canvas is wider than the content.
C15_Witness ==
    /\ pc = "done"
    /\ NumSlices >= 2
    /\ bigCanvas.width # options.contentWidthPx

\* C16: every image is placed as wide as the usable page width and keeps
\* the aspect ratio of its slice, placedHeight * canvasWidth =
\* sliceHeightPx * placedWidth; the sub-image is as wide as the canvas, as
\* high as the slice and starts at the slice's first row.
C16_AspectRatioKept ==
    \A i \in 1..SlicesPlaced :
        LET im == ImageOf(i)
        IN  /\ im.widthPt = geometry.usableWidthPt
            /\ im.heightPt[1] * bigCanvas.width =
                    SliceHeightPx(i) * im.widthPt * im.heightPt[2]
            /\ im.imageWidthPx = bigCanvas.width
            /\ im.imageHeightPx = slices[i].yEndPx - slices[i].yStartPx
            /\ im.sourceY = slices[i].yStartPx

\* An image whose slice is neither as wide nor as high as it is placed.
C16_Witness ==
    /\ SlicesPlaced >= 1
    /\ SliceHeightPx(1) > 0
    /\ ImageOf(1).widthPt # bigCanvas.width
    /\ ImageOf(1).heightPt[2] # 1

(***************************************************************************)
(* Scenario A and the number of pages.                                     *)
(***************************************************************************)
\* Scenario A: three blocks of 500 pixels, 24 pixels apart, capacity 1100.
ScenarioA ==
    /\ Returned
    /\ items = ArrayOf(<<500, 500, 500>>)
    /\ options.blockSpacingPx = 24
    /\ options.rasterScale = <<1, 1>>
    /\ Capacity = 1100

\* C17: scenario A gives exactly two slices: blocks 1 and 2 on page 1, which
\* goes from pixel 0 to pixel 1024, and block 3 alone on page 2.
C17_ScenarioA ==
    ScenarioA =>
        /\ cardRectsPx = <<[topPx |-> 0, heightPx |-> 500],
                          [topPx |-> 524, heightPx |-> 500],
                          [topPx |-> 1048, heightPx |-> 500]>>
        /\ NumSlices = 2
        /\ sliceCards = <<(<<1, 2>>), (<<3>>)>>
        /\ slices[1].yStartPx = 0
        /\ slices[1].yEndPx = 1024
        /\ slices[2].yStartPx = Top(3)
        /\ slices[2].yEndPx = Bottom(3)
        /\ forced = {}

C17_Witness == ScenarioA /\ NumSlices = 2

MinOf(S) == CHOOSE x \in S : \A y \in S : x <= y

\* The pixels a page takes that holds cards i to j: from the top of the
\* first to the bottom of the last.
Span(i, j) == Bottom(j) - Top(i)

\* The least number of pages for cards i to the last, over all the ways to
\* cut them into consecutive runs that each span at most the capacity.
RECURSIVE MinPagesFrom(_)
MinPagesFrom(i) ==
    IF i > NumCards
    THEN 0
    ELSE LET ends == {j \in i..NumCards : Span(i, j) <= Capacity}
         IN  IF ends = {}
             THEN NumCards + 1
             ELSE MinOf({1 + MinPagesFrom(j + 1) : j \in ends})

NoOversizedCard == \A i \in 1..NumCards : cardRectsPx[i].heightPx <= Capacity

\* C18: when no card is higher than the capacity, no way of cutting the
\* cards into consecutive runs that each span at most the capacity takes
\* fewer pages than the slicer returned slices.
C18_PageCountIsMinimal ==
    (Returned /\ NumCards >= 1 /\ ValidRects /\ NoOversizedCard) =>
        NumSlices <= MinPagesFrom(1)

\* Three cards on two pages, where cutting after card 1 or after card 2
\* both respect the capacity.
C18_Witness ==
    /\ Returned /\ ValidRects /\ NoOversizedCard
    /\ NumCards = 3
    /\ NumSlices = 2
    /\ Span(1, 2) <= Capacity
    /\ Span(2, 3) <= Capacity

(***************************************************************************)
(* What the page shows when a run from the download button fails.          *)
(***************************************************************************)
\* The handler of the download button is through with the run.
HandlerDone == Settled /\ ~loadingShown

\* C20: when a run started from the download button fails with the
\* empty-input error, the message the page shows is that error's own
\* message, verbatim.
C20_EmptyInputMessageShownVerbatim ==
    (HandlerDone /\ pc = "failed" /\ error = EmptyInputMessage) =>
        errorShown = EmptyInputMessage

\* What the code does: the catch clause drops the error and shows its own
\* text, whatever generatePDF rejected with.
C20_Divergence ==
    /\ HandlerDone
    /\ error = EmptyInputMessage
    /\ items = NoItems
    /\ runCount = 1
    /\ errorShown = GenericFailureMessage

(***************************************************************************)
(* Two interleaved runs.                                                   *)
(***************************************************************************)
\* The card rectangles of list measured in a render host with nothing else.
AloneRects(list) ==
    [i \in 1..Len(list) |->
        [topPx |-> RoundScaled(CardOffset(list, i, options.blockSpacingPx),
                               options.rasterScale),
         heightPx |-> RoundScaled(list[i], options.rasterScale)]]

AloneCanvas(list) ==
    CanvasOf([id |-> 0, height |-> WrapperHeight(list, options.blockSpacingPx)])

\* The slice list and the document of a run with nothing beside it.
AloneSlices(list) ==
    SlicesOf(AloneRects(list), GeometryOf(options, AloneCanvas(list))).slices

AloneDocument(list) == DocumentOf(AloneSlices(list), AloneCanvas(list))

\* The first run has its wrapper attached and has not reached line 83.
HoldsWrapper ==
    pc \in {"typeset", "typesetting", "settle", "capture", "compute", "outer",
            "inner", "push", "remove"}

\* C19: two interleaved runs on one render host share no run state.  The
\* wrapper of a run stays in the host until that run removes it, and is out
\* of it once it did; the slice list and the document of either run are
\* those the run would have produced with nothing beside it.
C19_RunsAreIsolated ==
    /\ HoldsWrapper => IsChild(hostChildren, wrapper.id)
    /\ peer.pc = "pending" => IsChild(hostChildren, peer.wrapper.id)
    /\ pc \in {"assemble", "done"} => ~IsChild(hostChildren, wrapper.id)
    /\ peer.pc = "done" => ~IsChild(hostChildren, peer.wrapper.id)
    /\ pc \in {"remove", "assemble", "done"} => slices = AloneSlices(items.list)
    /\ pc = "done" => pdfPages = AloneDocument(items.list)
    /\ peer.pc = "done" =>
            /\ peer.slices = AloneSlices(peer.items.list)
            /\ peer.pdfPages = AloneDocument(peer.items.list)

\* The first run has measured its cards below the wrapper of the second,
\* which was given other items and is still suspended.
C19_Witness ==
    /\ Returned
    /\ peer.pc = "pending"
    /\ peer.items # items
    /\ WrapperTop > 0
    /\ NumSlices >= 2

\* The second run finished while the first was suspended above it.
C19_WitnessPeer ==
    /\ peer.pc = "done"
    /\ pc = "capture"
    /\ peer.wrapper.id > wrapper.id
    /\ Len(peer.slices) >= 2

(***************************************************************************)
(* Termination and order of the slicer.                                    *)
(***************************************************************************)
\* _computePageSlices is in its loops.
Slicing == pc \in {"outer", "inner", "push"}

\* A step of the loops of lines 222-276.
SlicerStep ==
    \/ computePageSlices_page
    \/ computePageSlices_card
    \/ computePageSlices_push
    \/ computePageSlices_force

\* Where the loops are, counted from their end: every step brings it down.
LoopRank ==
    CASE pc = "outer" -> 3
      [] pc = "inner" -> 2
      [] pc = "push" -> 1
      [] OTHER -> 0

\* What is left to do: the cards behind the cursor, the pages the card
\* list still allows, and the position in the loops.
Variant == 4 * (NumCards - currentIndex) + 4 * (NumCards - NumSlices) + LoopRank

\* The cards consumed by the slices pushed so far.
CardsSliced == Len(Flatten(sliceCards))

\* C22: with positive heights and a positive capacity the loops of the
\* slicer terminate: every step lowers a variant that stays non-negative,
\* every slice pushed took at least one card the cursor went past, so
\* that there are never more slices than cards, and no card is read past
\* the end of the list.
C22_SlicerTerminates ==
    [][(Slicing /\ PositiveHeights /\ PositiveCapacity /\ SlicerStep) =>
            /\ Variant' < Variant
            /\ Variant' >= 0
            /\ currentIndex' <= NumCards
            /\ NumSlices' <= currentIndex'
            /\ pc' = "outer" => (CardsSliced' = currentIndex' /\ currentIndex' > CardsSliced)
            /\ error' # "TypeError"]_vars

\* As many pages as cards: the bound is met.
C22_Witness ==
    /\ Returned
    /\ PositiveHeights /\ PositiveCapacity
    /\ NumCards = 3
    /\ NumSlices = NumCards

\* The first card of the page being filled, or of slice k.
FirstCardOfPage == CardsSliced + 1
FirstCardOfSlice(k) == Len(Flatten(SubSeq(sliceCards, 1, k - 1))) + 1

\* C23: a page starts at the top of the first card no earlier page took,
\* not where the page before ended: once the fit test of a page has been
\* made, pageStartPx is that top, and every slice pushed stores it.
C23_PageStartsAtFirstUnplacedCard ==
    /\ (pc = "push" \/ (pc = "inner" /\ placed # <<>>)) =>
            pageStartPx = Top(FirstCardOfPage)
    /\ \A k \in 1..NumSlices : slices[k].yStartPx = Top(FirstCardOfSlice(k))

\* A second page that starts below the end of the first.
C23_Witness ==
    /\ Returned
    /\ NumSlices >= 2
    /\ slices[2].yStartPx # slices[1].yEndPx
    /\ slices[2].yStartPx = Top(FirstCardOfSlice(2))

\* C24: with positive heights and a positive capacity every slice is higher
\* than zero, and the slices come in increasing order without overlap:
\* yStartPx(i) < yEndPx(i) <= yStartPx(i + 1).
C24_SlicesIncreaseWithoutOverlap ==
    (PositiveHeights /\ PositiveCapacity) =>
        /\ \A k \in 1..NumSlices : slices[k].yStartPx < slices[k].yEndPx
        /\ \A k \in 1..(NumSlices - 1) : slices[k].yEndPx <= slices[k + 1].yStartPx

\* What the code does: the tops and the heights are rounded one by one
\* (lines 206-210), a card can start a pixel above the bottom of the card
\* before it, and a page that starts with it starts above the end of the
\* page before.
C24_Divergence ==
    /\ Returned
    /\ PositiveHeights /\ PositiveCapacity
    /\ geometry.usableWidthPt > 0
    /\ geometry.usableHeightPt > 0
    /\ \E k \in 1..(NumSlices - 1) : slices[k + 1].yStartPx < slices[k].yEndPx

\* The rational a is at most the integer n.
RationalAtMost(a, n) ==
    IF a[2] > 0 THEN a[1] <= n * a[2] ELSE a[1] >= n * a[2]

\* C25: every slice, packed or forced, is at most pageSliceHeightPx pixels
\* high, and the image placed for it at the top margin is at most the
\* usable page height high.
C25_SliceFitsThePage ==
    /\ \A k \in 1..NumSlices : SliceHeightPx(k) <= Capacity
    /\ \A i \in 1..SlicesPlaced :
            /\ ImageOf(i).y = geometry.margin
            /\ RationalAtMost(ImageOf(i).heightPt, geometry.usableHeightPt)

\* What the code does: with a margin of more than half the page either way
\* the factor is negative and the capacity positive; the slicer goes on,
\* and the image ends below the usable area.
C25_Divergence ==
    /\ SlicesPlaced >= 1
    /\ geometry.usableWidthPt < 0
    /\ geometry.usableHeightPt < 0
    /\ SliceHeightPx(1) <= Capacity
    /\ ~RationalAtMost(ImageOf(1).heightPt, geometry.usableHeightPt)

(***************************************************************************)
(* Properties of the server.                                               *)
(***************************************************************************)
\* chunkText has just returned.
ChunkReturned == srvPc = "llm" /\ llmIndex = 0

\* C27: chunkText with a chunk size above zero splits without loss: the
\* chunks concatenated in order are the text, every chunk is non-empty and
\* at most chunkSize long, every chunk but the last exactly chunkSize long,
\* and the empty text gives no chunk.
C27_ChunkingIsLossless ==
    (ChunkReturned /\ chunkSize > 0) =>
        /\ Flatten(chunks) = text
        /\ \A k \in 1..Len(chunks) :
                /\ chunks[k] # <<>>
                /\ Len(chunks[k]) <= chunkSize
                /\ k < Len(chunks) => Len(chunks[k]) = chunkSize
        /\ text = <<>> => chunks = <<>>

\* A text cut into full chunks and a shorter last one.
C27_Witness ==
    /\ ChunkReturned
    /\ Len(chunks) >= 2
    /\ Len(chunks[Len(chunks)]) < chunkSize
    /\ chunkSize >= 2

\* dedupeByNumberedTitle has returned.
DedupeReturned == srvPc = "respond"

\* The keys of the input, and the positions of the items of a key.
KeysOfInput == {KeyOf(all[j]) : j \in 1..Len(all)}
GroupOf(key) == {j \in 1..Len(all) : KeyOf(all[j]) = key}

\* The item of a key to keep: the first of those with the longest content.
WinnerOf(key) ==
    CHOOSE j \in GroupOf(key) :
        \A i \in GroupOf(key) :
            \/ ContentLength(all[i]) < ContentLength(all[j])
            \/ (ContentLength(all[i]) = ContentLength(all[j]) /\ j <= i)

\* C21: dedupeByNumberedTitle returns exactly one item for each normalized
\* key of its input: the item of that key with the longest content, the
\* first one seen when several are as long; every item returned is an
\* item of the input as it was.
C21_OneItemPerKey ==
    DedupeReturned =>
        /\ Len(content) = Cardinality(KeysOfInput)
        /\ \A key \in KeysOfInput :
                \E n \in 1..Len(content) :
                    /\ KeyOf(content[n]) = key
                    /\ content[n] = all[WinnerOf(key)]
                    /\ best[n].from = WinnerOf(key)
        /\ \A n \in 1..Len(content) : \E j \in 1..Len(all) : content[n] = all[j]

\* Two different items of one key that are as long as each other, the
\* first of them kept, beside an item of another key.
C21_Witness ==
    /\ DedupeReturned
    /\ Len(content) = 2
    /\ \E i \in 1..Len(all) : \E j \in 1..Len(all) :
            /\ i < j
            /\ KeyOf(all[i]) = KeyOf(all[j])
            /\ all[i] # all[j]
            /\ ContentLength(all[i]) = ContentLength(all[j])
            /\ WinnerOf(KeyOf(all[i])) = i

\* The handler did what at position i of its history.
Did(what, i) == i \in 1..Len(trace) /\ trace[i] = what
Parsed == \E i \in 1..Len(trace) : Did("parsed", i)

C26_WitnessKeyMissing ==
    /\ srvPc = "sent"
    /\ Parsed
    /\ ~apiKeySet
    /\ responses[1].body = "OpenAI API key not set on server."

C26_WitnessSuccess ==
    /\ srvPc = "sent"
    /\ responses[1].status = 200
    /\ Len(content) >= 1

====
